---- MODULE Spec2Model ----
(***************************************************************************)
(* Crossword generator of src/crossword/generate.py: the CSP solver        *)
(* CrosswordCreator (node consistency, revise, ac3, the variable and value *)
(* ordering heuristics, consistent, backtrack, solve) run on small         *)
(* puzzles.  Python indices are 0-based and kept so; a TLA+ sequence is    *)
(* indexed from 1, so word[k] of the code is word[k + 1] here.             *)
(***************************************************************************)
EXTENDS Integers, Sequences, FiniteSets, TLC

(***************************************************************************)
(* Bounds of the model.                                                    *)
(***************************************************************************)
\* largest number of words in a puzzle's word list
MaxWords == 3

(***************************************************************************)
(* Puzzle definition (crossword.Variable, crossword.Crossword).            *)
(***************************************************************************)
ACROSS == "across"
DOWN == "down"

\* Variable(i, j, direction, length)
Variable(i, j, direction, length) ==
    [i |-> i, j |-> j, direction |-> direction, length |-> length]

\* Variable.cells: the k-th cell (k = 0 .. length-1) of the word slot
Cell(v, k) ==
    << v.i + (IF v.direction = DOWN THEN k ELSE 0),
       v.j + (IF v.direction = ACROSS THEN k ELSE 0) >>

Cells(v) == { Cell(v, k) : k \in 0..(v.length - 1) }

\* the words every modelled word list is drawn from
WordPool ==
    { <<"A","B">>, <<"B","A">>, <<"B","B">>,
      <<"A","B","B">>, <<"B","A","B">>, <<"A","A","B">> }

\* the grid structures modelled, each given by its word slots
CornerStructure == { Variable(0, 0, ACROSS, 2), Variable(0, 0, DOWN, 2) }
EllStructure == { Variable(0, 0, DOWN, 2), Variable(1, 0, ACROSS, 2) }
ParallelStructure == { Variable(0, 0, ACROSS, 2), Variable(2, 0, ACROSS, 2) }
PiStructure ==
    { Variable(0, 0, ACROSS, 3), Variable(0, 0, DOWN, 2), Variable(0, 2, DOWN, 2) }

IslandStructure ==
    { Variable(0, 0, ACROSS, 2), Variable(0, 0, DOWN, 2), Variable(3, 0, ACROSS, 2) }

Structures ==
    { CornerStructure, EllStructure, ParallelStructure, PiStructure, IslandStructure }

WordLists == { ws \in SUBSET WordPool : Cardinality(ws) <= MaxWords }

\* the value None of the code, where it stands for "no overlap"
None == << >>

\* Crossword.overlaps[x, y]: None, or (ix, iy) with cell ix of x = cell iy of y
Overlap(x, y) ==
    IF Cells(x) \cap Cells(y) = {}
    THEN None
    ELSE LET c == CHOOSE cc \in Cells(x) \cap Cells(y) : TRUE
         IN << CHOOSE k \in 0..(x.length - 1) : Cell(x, k) = c,
               CHOOSE k \in 0..(y.length - 1) : Cell(y, k) = c >>

\* Crossword.neighbors(var)
Neighbors(vs, var) == { v \in vs : v /= var /\ Overlap(v, var) /= None }

\* every ordering of a finite set: the orders in which a Python set can be
\* iterated (list(s), for x in s)
Orderings(S) ==
    { f \in [1..Cardinality(S) -> S] : \A a, b \in DOMAIN f : f[a] = f[b] => a = b }

(***************************************************************************)
(* Helpers for Python lists and strings.                                   *)
(***************************************************************************)
Reverse(s) == [k \in 1..Len(s) |-> s[Len(s) + 1 - k]]

\* the elements of a list
Elems(s) == { s[k] : k \in 1..Len(s) }

\* list.sort(key=...), less being the order of the keys as the set of pairs
\* <<a, b>> with key(a) < key(b).  The sort is stable: s[i] comes after the
\* elements of smaller key and after the earlier elements of equal key
\* (neither less than the other).  On every list sorted here this order is a
\* weak order, so the result does not depend on the sorting algorithm.
StableSort(list, order) ==
    LET Rank(s, less, i) ==
            Cardinality({ j \in 1..Len(s) : <<s[j], s[i]>> \in less })
            + Cardinality({ j \in 1..(i - 1) :
                              <<s[j], s[i]>> \notin less /\ <<s[i], s[j]>> \notin less })
            + 1
        Sorted(s, less) ==
            [k \in 1..Len(s) |-> s[CHOOSE i \in 1..Len(s) : Rank(s, less, i) = k]]
    IN  CHOOSE sorted \in { Sorted(s, less) : s \in {list}, less \in {order} } : TRUE

\* list.sort(key=..., reverse=True): reverse, sort stably, reverse
StableSortReverse(s, less) == Reverse(StableSort(Reverse(s), less))

\* word[k] of the code is in range
InRange(word, k) == k < Len(word)

\* word[k] of the code (0-based), for k in range
CharAt(word, k) == IF InRange(word, k) THEN word[k + 1] ELSE "IndexError"

(***************************************************************************)
(* CrosswordCreator: constraint propagation.                               *)
(***************************************************************************)
\* enforce_node_consistency keeping the words that are not too long
EnforceNodeConsistencyKeepsShorter(d) ==
    [var \in DOMAIN d |-> { x \in d[var] : Len(x) <= var.length }]

\* enforce_node_consistency removing, for each variable, only one of the
\* words of the wrong length (as a loop does that removes from the set it
\* iterates)
EnforceNodeConsistencyRemovesOne(d) ==
    [var \in DOMAIN d |->
       LET wrong == { x \in d[var] : Len(x) /= var.length }
       IN  IF wrong = {} THEN d[var] ELSE d[var] \ { CHOOSE x \in wrong : TRUE }]

\* enforce_node_consistency: the new value of self.domains
EnforceNodeConsistency(d) ==
    [var \in DOMAIN d |-> { x \in d[var] : Len(x) = var.length }]

\* the loop of revise keeping a word of x only if every word of y agrees
\* with it
RECURSIVE ReviseLoopAllAgree(_, _, _, _, _)
ReviseLoopAllAgree(todo, dx, dy, overlap, revision) ==
    IF todo = {}
    THEN [domain |-> dx, revision |-> revision]
    ELSE LET x_word == CHOOSE w \in todo : TRUE
             consistent_val ==
                 \A y_word \in dy :
                     CharAt(x_word, overlap[1]) = CharAt(y_word, overlap[2])
         IN  IF ~consistent_val
             THEN ReviseLoopAllAgree(todo \ {x_word}, dx \ {x_word}, dy, overlap, TRUE)
             ELSE ReviseLoopAllAgree(todo \ {x_word}, dx, dy, overlap, revision)

\* the loop of revise comparing the same index of both words
RECURSIVE ReviseLoopSameIndex(_, _, _, _, _)
ReviseLoopSameIndex(todo, dx, dy, overlap, revision) ==
    IF todo = {}
    THEN [domain |-> dx, revision |-> revision]
    ELSE LET x_word == CHOOSE w \in todo : TRUE
             consistent_val ==
                 \E y_word \in dy : CharAt(x_word, overlap[1]) = CharAt(y_word, overlap[1])
         IN  IF ~consistent_val
             THEN ReviseLoopSameIndex(todo \ {x_word}, dx \ {x_word}, dy, overlap, TRUE)
             ELSE ReviseLoopSameIndex(todo \ {x_word}, dx, dy, overlap, revision)

\* the loop of revise over a copy of x's domain: todo is what is left of the
\* copy, dx the domain of x so far, revision the flag so far
RECURSIVE ReviseLoop(_, _, _, _, _)
ReviseLoop(todo, dx, dy, overlap, revision) ==
    IF todo = {}
    THEN [domain |-> dx, revision |-> revision]
    ELSE LET x_word == CHOOSE w \in todo : TRUE
             consistent_val ==
                 \E y_word \in dy : CharAt(x_word, overlap[1]) = CharAt(y_word, overlap[2])
         IN  IF ~consistent_val
             THEN ReviseLoop(todo \ {x_word}, dx \ {x_word}, dy, overlap, TRUE)
             ELSE ReviseLoop(todo \ {x_word}, dx, dy, overlap, revision)

\* revise indexes a word out of range (IndexError): some compared word is
\* shorter than its overlap index.  Never so on node-consistent domains.
ReviseRaises(d, x, y) ==
    /\ Overlap(x, y) /= None
    /\ d[x] /= {} /\ d[y] /= {}
    /\ \/ \E w \in d[x] : ~InRange(w, Overlap(x, y)[1])
       \/ \E w \in d[y] : ~InRange(w, Overlap(x, y)[2])

\* revise pruning the domain of y against x as well
ReviseBothWays(d, x, y) ==
    IF Overlap(x, y) = None
    THEN [domains |-> d, revision |-> FALSE]
    ELSE LET rx == ReviseLoop(d[x], d[x], d[y], Overlap(x, y), FALSE)
             ry == ReviseLoop(d[y], d[y], rx.domain, Overlap(y, x), FALSE)
         IN  [domains |-> [d EXCEPT ![x] = rx.domain, ![y] = ry.domain],
              revision |-> rx.revision]

\* revise starting from revision = True: it reports a revision every time
ReviseStartsTrue(d, x, y) ==
    IF Overlap(x, y) = None
    THEN [domains |-> d, revision |-> TRUE]
    ELSE LET r == ReviseLoop(d[x], d[x], d[y], Overlap(x, y), TRUE)
         IN  [domains |-> [d EXCEPT ![x] = r.domain], revision |-> r.revision]

\* revise(x, y): the new self.domains and the returned flag
Revise(d, x, y) ==
    IF Overlap(x, y) = None
    THEN [domains |-> d, revision |-> FALSE]
    ELSE LET r == ReviseLoop(d[x], d[x], d[y], Overlap(x, y), FALSE)
         IN  [domains |-> [d EXCEPT ![x] = r.domain], revision |-> r.revision]

\* ac3 with arcs == None: the arcs (vars[i], vars[j]), i < j, in loop order
RECURSIVE InitialArcsFrom(_, _, _)
InitialArcsFrom(vars, i, j) ==
    IF i > Len(vars)
    THEN << >>
    ELSE IF j > Len(vars)
         THEN InitialArcsFrom(vars, i + 1, i + 2)
         ELSE << <<vars[i], vars[j]>> >> \o InitialArcsFrom(vars, i, j + 1)

InitialArcs(vars) == InitialArcsFrom(vars, 1, 2)

\* the arcs appended by ac3 after a revision of x against y: (x, node) for
\* each node of neighbours, iterated in the order nodes
NewArcs(x, nodes) == [k \in 1..Len(nodes) |-> <<x, nodes[k]>>]

(***************************************************************************)
(* CrosswordCreator: search.                                               *)
(***************************************************************************)
\* assignment_complete
AssignmentComplete(vs, assignment) == \A var \in vs : var \in DOMAIN assignment

\* consistent without the check that the values are distinct
ConsistentNotDistinct(vs, assignment) ==
    \A var \in DOMAIN assignment :
         /\ var.length = Len(assignment[var])
         /\ \A neighbour \in Neighbors(vs, var) :
              (Overlap(var, neighbour) /= None /\ neighbour \in DOMAIN assignment)
                => CharAt(assignment[var], Overlap(var, neighbour)[1])
                     = CharAt(assignment[neighbour], Overlap(var, neighbour)[2])

\* consistent without the check of the neighbouring variables
ConsistentNoNeighbours(vs, assignment) ==
    /\ Cardinality(DOMAIN assignment)
         = Cardinality({ assignment[var] : var \in DOMAIN assignment })
    /\ \A var \in DOMAIN assignment : var.length = Len(assignment[var])

\* consistent accepting every assignment
ConsistentAlways(vs, assignment) == TRUE

\* consistent
Consistent(vs, assignment) ==
    /\ Cardinality(DOMAIN assignment)
         = Cardinality({ assignment[var] : var \in DOMAIN assignment })
    /\ \A var \in DOMAIN assignment :
         /\ var.length = Len(assignment[var])
         /\ \A neighbour \in Neighbors(vs, var) :
              (Overlap(var, neighbour) /= None /\ neighbour \in DOMAIN assignment)
                => CharAt(assignment[var], Overlap(var, neighbour)[1])
                     = CharAt(assignment[neighbour], Overlap(var, neighbour)[2])

\* consistent, lines 194-205, as the loop runs: for var in assignment visits
\* the keys in dict order (todo) and the neighbours of var in any order, and
\* stops at the first check that fails.  The word of a neighbour is indexed
\* before its own length is checked, so a neighbour's word that is too
\* short for the shared cell raises IndexError.  The set of the outcomes
\* the orders of the neighbours allow.
RECURSIVE ConsistentLoop(_, _, _)
ConsistentLoop(vs, assignment, todo) ==
    IF todo = << >>
    THEN { "True" }
    ELSE LET var == Head(todo)
             stops == { neighbour \in Neighbors(vs, var) :
                          /\ neighbour \in DOMAIN assignment
                          /\ CharAt(assignment[var], Overlap(var, neighbour)[1])
                               /= CharAt(assignment[neighbour], Overlap(var, neighbour)[2]) }
         IN  IF var.length /= Len(assignment[var])
             THEN { "False" }
             ELSE IF stops = {}
                  THEN ConsistentLoop(vs, assignment, Tail(todo))
                  ELSE { IF InRange(assignment[neighbour], Overlap(var, neighbour)[2])
                         THEN "False" ELSE "IndexError" : neighbour \in stops }

\* consistent: "True", "False" or "IndexError", keys being the keys of
\* assignment in dict order
ConsistentOutcomes(vs, assignment, keys) ==
    IF Cardinality(DOMAIN assignment)
         /= Cardinality({ assignment[var] : var \in DOMAIN assignment })
    THEN { "False" }
    ELSE ConsistentLoop(vs, assignment, keys)

\* vals_ruled_out[val] of order_domain_values: one count for each value of
\* each unassigned neighbour that differs from val on the shared cell
ValsRuledOut(vs, d, var, assignment, val) ==
    LET unassigned_neighbours == { x \in Neighbors(vs, var) : x \notin DOMAIN assignment }
    IN  Cardinality(
          { p \in UNION { { <<neighbour, neighbour_val>> : neighbour_val \in d[neighbour] } :
                          neighbour \in unassigned_neighbours } :
              CharAt(val, Overlap(var, p[1])[1]) /= CharAt(p[2], Overlap(var, p[1])[2]) })

\* order_domain_values sorting with reverse=True: the value ruling out the
\* most comes first
OrderDomainValuesMostFirst(vs, d, var, assignment, domain_values) ==
    LET vals == Elems(domain_values)
        less == { p \in vals \X vals :
                    ValsRuledOut(vs, d, var, assignment, p[1])
                      < ValsRuledOut(vs, d, var, assignment, p[2]) }
    IN  StableSortReverse(domain_values, less)

\* order_domain_values, domain_values being list(self.domains[var])
OrderDomainValues(vs, d, var, assignment, domain_values) ==
    LET vals == Elems(domain_values)
        less == { p \in vals \X vals :
                    ValsRuledOut(vs, d, var, assignment, p[1])
                      < ValsRuledOut(vs, d, var, assignment, p[2]) }
    IN  StableSort(domain_values, less)

\* select_unassigned_variable, vars being the iteration order of
\* self.crossword.variables.  The first sort compares the sets
\* neighbors(var): for Python sets a < b is "a is a proper subset of b".
SelectUnassignedVariable(vars, d, assignment) ==
    LET vs == Elems(vars)
        unassigned_variables == SelectSeq(vars, LAMBDA var : var \notin DOMAIN assignment)
        lessNeighbors ==
            { p \in vs \X vs : /\ Neighbors(vs, p[1]) \subseteq Neighbors(vs, p[2])
                               /\ Neighbors(vs, p[1]) /= Neighbors(vs, p[2]) }
        lessDomain == { p \in vs \X vs : Cardinality(d[p[1]]) < Cardinality(d[p[2]]) }
    IN  StableSort(StableSortReverse(unassigned_variables, lessNeighbors), lessDomain)[1]

\* assignment[var] = value
Bind(assignment, var, value) ==
    [v \in DOMAIN assignment \cup {var} |-> IF v = var THEN value ELSE assignment[v]]

\* assignment.pop(var)
Pop(assignment, var) == [v \in DOMAIN assignment \ {var} |-> assignment[v]]

\* the keys of the dict after assignment[var] = value: a new key goes last,
\* a key already there keeps its place
BindKeys(keys, var) == IF var \in Elems(keys) THEN keys ELSE Append(keys, var)

\* the keys of the dict after assignment.pop(var)
PopKeys(keys, var) == SelectSeq(keys, LAMBDA k : k /= var)

\* solve returning at once, with nothing, when ac3 returned False
AfterAc3ReturnsOnFailure(ac3_returned) == IF ac3_returned THEN "backtrack" ELSE "done"

\* solve, lines 93-94: what follows the return of ac3.  The returned value
\* is dropped and backtrack(dict()) is called either way.
AfterAc3(ac3_returned) == "backtrack"

(***************************************************************************)
(* The run of solve() as a state machine.                                  *)
(***************************************************************************)
VARIABLES
    variables,    \* self.crossword.variables
    words,        \* self.crossword.words
    vars,         \* the order in which self.crossword.variables is iterated
    domains,      \* self.domains
    pc,           \* where the run of solve() is
    arcs,         \* the queue of ac3
    revision,     \* what the last call of revise returned
    ac3_result,   \* what ac3 returned: "none" while it has not returned
    assignment,   \* the one dict passed down the calls of backtrack
    stack,        \* the active calls of backtrack inside their for loop: var,
                  \* the values left to try, the assignment as it was on entry
    result,       \* what solve returned
    calls,        \* the functions solve has called, in order
    keys,         \* the keys of assignment in the order the dict iterates them
    is_consistent \* what the last call of consistent returned

state == << variables, words, vars, domains, pc, arcs, revision, ac3_result,
            assignment, stack, result, calls, keys, is_consistent >>

EmptyAssignment == << >>

\* main, before the puzzle is read
Init ==
    /\ variables = {}
    /\ words = {}
    /\ vars = << >>
    /\ domains = << >>
    /\ pc = "main"
    /\ arcs = << >>
    /\ revision = FALSE
    /\ ac3_result = "none"
    /\ assignment = EmptyAssignment
    /\ stack = << >>
    /\ result = [status |-> "pending", assignment |-> EmptyAssignment]
    /\ calls = << >>
    /\ keys = << >>
    /\ is_consistent = FALSE

\* main: Crossword(structure, words), then CrosswordCreator.__init__, which
\* gives every variable its own copy of the word list as domain
Create ==
    /\ pc = "main"
    /\ variables' \in Structures
    /\ words' \in WordLists
    /\ vars' \in Orderings(variables')
    /\ domains' = [var \in variables' |-> words']
    /\ pc' = "solve"
    /\ UNCHANGED << arcs, revision, ac3_result, assignment, stack, result, calls,
                    keys, is_consistent >>

\* solve: self.enforce_node_consistency()
SolveEnforceNodeConsistency ==
    /\ pc = "solve"
    /\ domains' = EnforceNodeConsistency(domains)
    /\ calls' = Append(calls, "enforce_node_consistency")
    /\ pc' = "ac3"
    /\ UNCHANGED << keys, is_consistent, variables, words, vars, arcs, revision, ac3_result,
                    assignment, stack, result >>

\* solve: self.ac3(), up to the while loop
Ac3Start ==
    /\ pc = "ac3"
    /\ arcs' = InitialArcs(vars)
    /\ calls' = Append(calls, "ac3")
    /\ pc' = "ac3_loop"
    /\ UNCHANGED << keys, is_consistent, variables, words, vars, domains, revision, ac3_result,
                    assignment, stack, result >>

\* ac3: one iteration of the while loop
Ac3Revise ==
    /\ pc = "ac3_loop"
    /\ arcs /= << >>
    /\ LET x == Head(arcs)[1]
           y == Head(arcs)[2]
           r == Revise(domains, x, y)
           neighbours == Neighbors(variables, x)
       IN  IF ReviseRaises(domains, x, y) \/ (r.revision /\ r.domains[x] /= {} /\ y \notin neighbours)
           THEN \* IndexError in revise, KeyError in neighbours.remove(y)
                /\ pc' = "raised"
                /\ UNCHANGED << domains, revision, arcs, ac3_result >>
           ELSE /\ domains' = r.domains
                /\ revision' = r.revision
                /\ IF r.revision /\ r.domains[x] = {}
                   THEN /\ arcs' = Tail(arcs)
                        /\ ac3_result' = "False"
                        /\ pc' = AfterAc3(FALSE)
                   ELSE /\ IF r.revision
                           THEN \E nodes \in Orderings(neighbours \ {y}) :
                                    arcs' = Tail(arcs) \o NewArcs(x, nodes)
                           ELSE arcs' = Tail(arcs)
                        /\ UNCHANGED << ac3_result, pc >>
    /\ UNCHANGED << keys, is_consistent, variables, words, vars, assignment, stack, result, calls >>

\* ac3: the queue is empty, return True
Ac3Return ==
    /\ pc = "ac3_loop"
    /\ arcs = << >>
    /\ ac3_result' = "True"
    /\ pc' = AfterAc3(TRUE)
    /\ UNCHANGED << keys, is_consistent, variables, words, vars, domains, arcs, revision,
                    assignment, stack, result, calls >>

\* backtrack: the assignment is complete, return it; every caller returns it
BacktrackComplete ==
    /\ pc = "backtrack"
    /\ AssignmentComplete(variables, assignment)
    /\ result' = [status |-> "assignment", assignment |-> assignment]
    /\ stack' = << >>
    /\ calls' = IF stack = << >> THEN Append(calls, "backtrack") ELSE calls
    /\ pc' = "done"
    /\ UNCHANGED << keys, is_consistent, variables, words, vars, domains, arcs, revision, ac3_result,
                    assignment >>

\* backtrack: select a variable, order its values, enter the for loop
BacktrackSelect ==
    /\ pc = "backtrack"
    /\ ~AssignmentComplete(variables, assignment)
    /\ \E var \in { SelectUnassignedVariable(vars, domains, assignment) } :
         \E domain_values \in Orderings(domains[var]) :
           \E values \in { OrderDomainValues(variables, domains, var,
                                             assignment, domain_values) } :
               stack' = Append(stack, [var |-> var, values |-> values,
                                       entry |-> assignment])
    /\ calls' = IF stack = << >> THEN Append(calls, "backtrack") ELSE calls
    /\ pc' = "bt_loop"
    /\ UNCHANGED << keys, is_consistent, variables, words, vars, domains, arcs, revision, ac3_result,
                    assignment, result >>

\* backtrack narrowing the domain of var to the value it tries
BacktrackTryWithInference ==
    /\ pc = "bt_loop"
    /\ stack[Len(stack)].values /= << >>
    /\ LET frame == stack[Len(stack)]
           value == Head(frame.values)
       IN  /\ assignment' = Bind(assignment, frame.var, value)
           /\ domains' = [domains EXCEPT ![frame.var] = {value}]
           /\ stack' = [stack EXCEPT ![Len(stack)].values = Tail(frame.values)]
           /\ keys' = BindKeys(keys, frame.var)
           /\ is_consistent' = Consistent(variables, assignment')
           /\ pc' = IF is_consistent' THEN "backtrack" ELSE "bt_loop"
    /\ UNCHANGED << variables, words, vars, arcs, revision, ac3_result,
                    result, calls >>

\* backtrack: one iteration of the for loop, up to the recursive call
BacktrackTry ==
    /\ pc = "bt_loop"
    /\ stack[Len(stack)].values /= << >>
    /\ LET frame == stack[Len(stack)]
           value == Head(frame.values)
       IN  /\ assignment' = Bind(assignment, frame.var, value)
           /\ stack' = [stack EXCEPT ![Len(stack)].values = Tail(frame.values)]
           /\ keys' = BindKeys(keys, frame.var)
           /\ \E outcome \in ConsistentOutcomes(variables, assignment', keys') :
                IF outcome = "IndexError"
                THEN /\ pc' = "raised"
                     /\ UNCHANGED is_consistent
                ELSE /\ is_consistent' = Consistent(variables, assignment')
                     /\ pc' = IF is_consistent' THEN "backtrack" ELSE "bt_loop"
    /\ UNCHANGED << variables, words, vars, domains, arcs, revision, ac3_result,
                    result, calls >>

\* backtrack: the for loop is over, return None; the caller, if any, pops
\* its own variable and goes on with its loop
BacktrackFail ==
    /\ pc = "bt_loop"
    /\ stack[Len(stack)].values = << >>
    /\ stack' = SubSeq(stack, 1, Len(stack) - 1)
    /\ IF Len(stack) = 1
       THEN /\ result' = [status |-> "None", assignment |-> EmptyAssignment]
            /\ pc' = "done"
            /\ UNCHANGED << assignment, keys >>
       ELSE /\ assignment' = Pop(assignment, stack[Len(stack) - 1].var)
            /\ keys' = PopKeys(keys, stack[Len(stack) - 1].var)
            /\ UNCHANGED << result, pc >>
    /\ UNCHANGED << is_consistent, variables, words, vars, domains, arcs, revision, ac3_result,
                    calls >>

Next ==
    \/ Create
    \/ SolveEnforceNodeConsistency
    \/ Ac3Start
    \/ Ac3Revise
    \/ Ac3Return
    \/ BacktrackComplete
    \/ BacktrackSelect
    \/ BacktrackTry
    \/ BacktrackFail

Spec == Init /\ [][Next]_state

(***************************************************************************)
(* revise(x, y) called on its own, on any node-consistent domains.         *)
(***************************************************************************)
\* a CrosswordCreator whose domains hold any words of the right lengths
ReviseTestInit ==
    /\ variables \in Structures
    /\ words \in WordLists
    /\ vars = CHOOSE order \in Orderings(variables) : TRUE
    /\ domains \in [variables -> SUBSET words]
    /\ \A var \in variables : \A w \in domains[var] : Len(w) = var.length
    /\ pc = "test"
    /\ arcs = << >>
    /\ revision = FALSE
    /\ ac3_result = "none"
    /\ assignment = EmptyAssignment
    /\ stack = << >>
    /\ result = [status |-> "pending", assignment |-> EmptyAssignment]
    /\ calls = << >>
    /\ keys = << >>
    /\ is_consistent = FALSE

\* the caller picks two distinct variables x and y
ReviseTestPick ==
    /\ pc = "test"
    /\ \E x, y \in variables : x /= y /\ arcs' = << <<x, y>> >>
    /\ pc' = "test_revise"
    /\ UNCHANGED << keys, is_consistent, variables, words, vars, domains, revision, ac3_result,
                    assignment, stack, result, calls >>

\* revise(x, y)
ReviseTestCall ==
    /\ pc = "test_revise"
    /\ LET x == Head(arcs)[1]
           y == Head(arcs)[2]
           r == Revise(domains, x, y)
       IN  IF ReviseRaises(domains, x, y)
           THEN /\ pc' = "raised"
                /\ UNCHANGED << domains, revision >>
           ELSE /\ domains' = r.domains
                /\ revision' = r.revision
                /\ pc' = "test"
    /\ arcs' = << >>
    /\ UNCHANGED << keys, is_consistent, variables, words, vars, ac3_result, assignment, stack,
                    result, calls >>

ReviseTestNext == ReviseTestPick \/ ReviseTestCall

ReviseTestSpec == ReviseTestInit /\ [][ReviseTestNext]_state

(***************************************************************************)
(* consistent(assignment) called on its own, on any dict that binds some   *)
(* of the variables to words of the word list.                             *)
(***************************************************************************)
\* the dicts from variables of vs to words of ws
Assignments(vs, ws) == UNION { [S -> ws] : S \in SUBSET vs }

\* a CrosswordCreator and any such dict, its keys in any insertion order
ConsistentTestInit ==
    /\ variables \in Structures
    /\ words \in WordLists
    /\ vars = CHOOSE order \in Orderings(variables) : TRUE
    /\ domains = [var \in variables |-> words]
    /\ pc = "test_consistent"
    /\ arcs = << >>
    /\ revision = FALSE
    /\ ac3_result = "none"
    /\ assignment \in Assignments(variables, words)
    /\ stack = << >>
    /\ result = [status |-> "pending", assignment |-> EmptyAssignment]
    /\ calls = << >>
    /\ keys \in Orderings(DOMAIN assignment)
    /\ is_consistent = FALSE

\* consistent(assignment)
ConsistentTestCall ==
    /\ pc = "test_consistent"
    /\ \E outcome \in ConsistentOutcomes(variables, assignment, keys) :
         IF outcome = "IndexError"
         THEN /\ pc' = "raised"
              /\ UNCHANGED is_consistent
         ELSE /\ is_consistent' = Consistent(variables, assignment)
              /\ pc' = "test_returned"
    /\ UNCHANGED << variables, words, vars, domains, arcs, revision, ac3_result,
                    assignment, stack, result, calls, keys >>

ConsistentTestNext == ConsistentTestCall

ConsistentTestSpec == ConsistentTestInit /\ [][ConsistentTestNext]_state

(***************************************************************************)
(* enforce_node_consistency() called on its own, twice, on any domains.    *)
(***************************************************************************)
\* a CrosswordCreator whose domains hold any words of the word list
NodeConsistencyTestInit ==
    /\ variables \in Structures
    /\ words \in WordLists
    /\ vars = CHOOSE order \in Orderings(variables) : TRUE
    /\ domains \in [variables -> SUBSET words]
    /\ pc = "test_node"
    /\ arcs = << >>
    /\ revision = FALSE
    /\ ac3_result = "none"
    /\ assignment = EmptyAssignment
    /\ stack = << >>
    /\ result = [status |-> "pending", assignment |-> EmptyAssignment]
    /\ calls = << >>
    /\ keys = << >>
    /\ is_consistent = FALSE

\* enforce_node_consistency(), the first or the second time
NodeConsistencyTestCall ==
    /\ pc = "test_node"
    /\ Len(calls) < 2
    /\ domains' = EnforceNodeConsistency(domains)
    /\ calls' = Append(calls, "enforce_node_consistency")
    /\ UNCHANGED << variables, words, vars, pc, arcs, revision, ac3_result,
                    assignment, stack, result, keys, is_consistent >>

NodeConsistencyTestNext == NodeConsistencyTestCall

NodeConsistencyTestSpec == NodeConsistencyTestInit /\ [][NodeConsistencyTestNext]_state

TypeOK ==
    /\ pc \in { "test", "test_revise", "test_consistent", "test_returned", "test_node", "main", "solve", "ac3", "ac3_loop", "backtrack", "bt_loop", "done", "raised" }
    /\ \A var \in variables : domains[var] \subseteq words
    /\ DOMAIN assignment \subseteq variables
    /\ Len(stack) <= Cardinality(variables)

(***************************************************************************)
(* Properties.                                                             *)
(***************************************************************************)
\* a binds every variable, the words are pairwise distinct and of the
\* variables' lengths, and overlapping variables agree on the shared cell
IsSolution(a) ==
    /\ DOMAIN a = variables
    /\ \A x, y \in variables : x /= y => a[x] /= a[y]
    /\ \A x \in variables : Len(a[x]) = x.length
    /\ \A x, y \in variables :
         (x /= y /\ Cells(x) \cap Cells(y) /= {})
           => \A kx \in 0..(x.length - 1), ky \in 0..(y.length - 1) :
                 Cell(x, kx) = Cell(y, ky) => a[x][kx + 1] = a[y][ky + 1]

\* the complete consistent assignments of the puzzle over its word list
Solutions == { a \in [variables -> words] : IsSolution(a) }

Returned == pc = "done"

\* C1: whenever solve() returns an assignment, it binds every variable and
\* is consistent: distinct words, of the right lengths, agreeing on overlaps
C1_SolveSound ==
    (Returned /\ result.status = "assignment") => IsSolution(result.assignment)

C1_Witness ==
    /\ Returned /\ result.status = "assignment"
    /\ Cardinality(variables) = 3
    /\ \E x, y \in variables : x /= y /\ Overlap(x, y) /= None

\* C2: when a complete consistent assignment exists, solve() returns a
\* complete assignment and never None; when exactly one exists, that one
C2_SolveComplete ==
    (Returned /\ Solutions /= {})
      => /\ result.status = "assignment"
         /\ Cardinality(Solutions) = 1 => result.assignment \in Solutions

\* the run goes on until solve() returns or raises
FairSpec == Spec /\ WF_state(Next)

\* C3: when no complete consistent assignment exists, solve() terminates
\* and returns None; it never raises and never returns an assignment
C3_NoSolutionIsNone ==
    /\ [](pc = "raised" => Solutions /= {})
    /\ [](Returned /\ Solutions = {} => result.status = "None")
    /\ (pc = "solve" /\ Solutions = {}) ~> (Returned /\ result.status = "None")

C3_Witness ==
    /\ Returned /\ result.status = "None" /\ Solutions = {}
    /\ \E var \in variables : \A w \in words : Len(w) /= var.length
    /\ \E var \in variables : domains[var] /= {}

\* wx of x and wy of y agree on the cell the two variables share
Agree(x, wx, y, wy) == wx[Overlap(x, y)[1] + 1] = wy[Overlap(x, y)[2] + 1]

\* every word of x's domain has a word of y's domain agreeing with it
ArcConsistent(d, x, y) ==
    Overlap(x, y) /= None => \A wx \in d[x] : \E wy \in d[y] : Agree(x, wx, y, wy)

\* C4: after ac3() returns True the domains are arc consistent in both
\* directions, for every ordered pair of overlapping variables
C4_ArcConsistentAfterAc3 ==
    ac3_result = "True"
      => \A x, y \in variables : x /= y => ArcConsistent(domains, x, y)

\* C5: ac3() returns True if and only if no domain is empty when it returns
C5_Ac3TrueIffNoEmptyDomain ==
    /\ pc /= "raised"
    /\ ac3_result /= "none"
         => (ac3_result = "True" <=> \A var \in variables : domains[var] /= {})

\* the calls solve makes, up to the point it has reached, are the first of
\* enforce_node_consistency, ac3, backtrack, in this order
CallsInOrder ==
    \E n \in 0..3 :
        calls = SubSeq(<<"enforce_node_consistency", "ac3", "backtrack">>, 1, n)

\* C6 (as claimed): solve calls enforce_node_consistency, ac3 and backtrack
\* in this order, and when ac3 returns False it returns None at once, without
\* calling backtrack
C6_NoBacktrackAfterAc3Failure ==
    /\ CallsInOrder
    /\ ac3_result = "False"
         => /\ Returned /\ result.status = "None"
            /\ calls = <<"enforce_node_consistency", "ac3">>

\* C6 (amended): solve calls enforce_node_consistency, ac3 and backtrack in
\* this order, backtrack on the empty assignment, whatever ac3 returned; when
\* ac3 returned False, backtrack is still called and solve returns None
C6_BacktrackAlwaysCalled ==
    /\ CallsInOrder
    /\ (pc = "backtrack" /\ stack = << >>) => assignment = EmptyAssignment
    /\ Returned => calls = <<"enforce_node_consistency", "ac3", "backtrack">>
    /\ (Returned /\ ac3_result = "False") => result.status = "None"

C6_Witness ==
    /\ Returned /\ ac3_result = "False" /\ result.status = "None"
    /\ calls = <<"enforce_node_consistency", "ac3", "backtrack">>

\* C7: enforce_node_consistency leaves in each domain exactly the words of
\* the previous domain that have the variable's length, and does not raise
C7_NodeConsistency ==
    [][pc = "solve"
         => /\ pc' = "ac3"
            /\ \A var \in variables :
                 /\ domains'[var] \subseteq domains[var]
                 /\ \A w \in domains[var] : w \in domains'[var] <=> Len(w) = var.length]_state

C7_Witness ==
    /\ pc = "ac3" /\ words /= {}
    /\ \E var \in variables : domains[var] = {}
    /\ \E var \in variables : domains[var] /= {}

\* the domains once node consistency is enforced
NodeConsistentDomains == [var \in variables |-> { w \in words : Len(w) = var.length }]

\* the next step is a call revise(x, y) from the loop of ac3
ReviseCalled == pc \in { "ac3_loop", "test_revise" } /\ arcs /= << >>

\* C8: revise(x, y) removes from x's domain exactly the words with no
\* agreeing word in y's domain and returns True iff it removed a word;
\* without an overlap it removes nothing and returns False
C8_ReviseExact ==
    [][ReviseCalled
         => LET x == Head(arcs)[1]
                y == Head(arcs)[2]
            IN  /\ pc' /= "raised"
                /\ x /= y
                /\ Overlap(x, y) = None => (domains'[x] = domains[x] /\ ~revision')
                /\ Overlap(x, y) /= None =>
                     domains'[x] = { wx \in domains[x] :
                                       \E wy \in domains[y] : Agree(x, wx, y, wy) }
                /\ revision' <=> domains'[x] /= domains[x]]_state

C8_Witness ==
    /\ pc = "test" /\ revision
    /\ \E x, y \in variables :
         /\ x /= y /\ Overlap(x, y) /= None
         /\ domains[x] /= {} /\ domains[y] /= {}
         /\ \A wx \in domains[x] : \E wy \in domains[y] : Agree(x, wx, y, wy)
         /\ \E wy \in domains[y] : \A wx \in domains[x] : ~Agree(x, wx, y, wy)

\* C9: revise(x, y) changes nothing but x's domain, which only loses words
C9_ReviseFrame ==
    [][ReviseCalled
         => LET x == Head(arcs)[1]
            IN  /\ domains'[x] \subseteq domains[x]
                /\ \A var \in variables \ {x} : domains'[var] = domains[var]
                /\ DOMAIN domains' = variables
                /\ UNCHANGED << variables, words, assignment >>]_state

C9_Witness ==
    /\ revision
    /\ \E x, y \in variables :
         /\ x /= y /\ Overlap(x, y) /= None
         /\ domains[x] /= NodeConsistentDomains[x]
         /\ domains[y] = NodeConsistentDomains[y] /\ domains[y] /= {}

\* the number of neighbors of var in the overlap graph
Degree(var) == Cardinality({ v \in variables \ {var} : Overlap(var, v) /= None })

\* the next step is a call select_unassigned_variable(assignment)
SelectCalled == pc = "backtrack" /\ ~AssignmentComplete(variables, assignment)

\* C10: select_unassigned_variable returns an unassigned variable of minimal
\* domain size and, among those of minimal size, one of maximal degree
C10_SelectMinDomainMaxDegree ==
    SelectCalled
      => LET unassigned == variables \ DOMAIN assignment
             var == SelectUnassignedVariable(vars, domains, assignment)
         IN  /\ var \in unassigned
             /\ \A v \in unassigned : Cardinality(domains[var]) <= Cardinality(domains[v])
             /\ \A v \in unassigned :
                  Cardinality(domains[v]) = Cardinality(domains[var])
                    => Degree(v) <= Degree(var)

(***************************************************************************)
(* order_domain_values                                                     *)
(***************************************************************************)
\* the sum of count[n] over the variables n of the set S
RECURSIVE SumOver(_, _)
SumOver(count, S) ==
    IF S = {} THEN 0
    ELSE LET n == CHOOSE m \in S : TRUE
         IN  count[n] + SumOver(count, S \ {n})

\* how many words of the domains of the neighbours of var that are not in
\* the assignment differ from val on the cell shared with var
RuledOut(var, val) ==
    LET open == { n \in variables : /\ n /= var
                                     /\ Overlap(var, n) /= None
                                     /\ n \notin DOMAIN assignment }
        count == [n \in open |->
                    Cardinality({ w \in domains[n] :
                                    val[Overlap(var, n)[1] + 1] /= w[Overlap(var, n)[2] + 1] })]
    IN  SumOver(count, open)

\* the call of backtrack at the top of the stack has just entered its loop:
\* the values of its frame are the list order_domain_values returned
ValuesJustOrdered ==
    /\ pc = "bt_loop"
    /\ stack /= << >>
    /\ assignment = stack[Len(stack)].entry
    /\ Len(stack[Len(stack)].values) = Cardinality(domains[stack[Len(stack)].var])

\* C11: the list order_domain_values(var, assignment) returns holds every
\* word of the domain of var exactly once, and along the list the number of
\* words a value rules out in the domains of the unassigned neighbours of
\* var never goes down.
C11_OrderDomainValuesSorted ==
    [][(pc = "backtrack" /\ pc' = "bt_loop") =>
         LET var == stack'[Len(stack')].var
             values == stack'[Len(stack')].values
         IN  /\ Len(values) = Cardinality(domains[var])
             /\ Elems(values) = domains[var]
             /\ \A i, j \in 1..Len(values) :
                  i < j => RuledOut(var, values[i]) <= RuledOut(var, values[j])]_state

\* a list was returned whose first value rules out less than its last one
C11_Witness ==
    /\ ValuesJustOrdered
    /\ LET var == stack[Len(stack)].var
           values == stack[Len(stack)].values
       IN  /\ Len(values) >= 2
           /\ RuledOut(var, values[1]) < RuledOut(var, values[Len(values)])

(***************************************************************************)
(* consistent                                                              *)
(***************************************************************************)
\* (a) the assigned words are pairwise distinct, (b) every assigned word has
\* the length of its variable, (c) two assigned variables that share a cell
\* hold the same letter there
FitsSoFar(a) ==
    /\ \A x, y \in DOMAIN a : x /= y => a[x] /= a[y]
    /\ \A x \in DOMAIN a : Len(a[x]) = x.length
    /\ \A x, y \in DOMAIN a :
         (x /= y /\ Overlap(x, y) /= None)
           => a[x][Overlap(x, y)[1] + 1] = a[y][Overlap(x, y)[2] + 1]

\* C12: for any dict that binds some variables to words, consistent returns
\* a boolean and never raises, and the boolean is True exactly when (a), (b)
\* and (c) hold.
C12_ConsistentIffFits ==
    [][pc = "test_consistent" =>
         /\ pc' = "test_returned"
         /\ is_consistent' = FitsSoFar(assignment)]_state

\* when consistent returns, what it returns is right
ConsistentRightWhenItReturns ==
    [][(pc = "test_consistent" /\ pc' = "test_returned") =>
         is_consistent' = FitsSoFar(assignment)]_state

(***************************************************************************)
(* ac3 and the order of the arcs                                           *)
(***************************************************************************)
\* d without the words that no word of an overlapping variable agrees with
DropUnsupported(d) ==
    [x \in DOMAIN d |->
       { wx \in d[x] : \A y \in DOMAIN d \ {x} :
                          Overlap(x, y) /= None =>
                            \E wy \in d[y] : Agree(x, wx, y, wy) }]

\* the largest sub-domains of d that are arc consistent
RECURSIVE MaximalArcConsistent(_)
MaximalArcConsistent(d) ==
    IF DropUnsupported(d) = d THEN d ELSE MaximalArcConsistent(DropUnsupported(d))

\* the words of the right length for each variable
NodeConsistentWords == [var \in variables |-> { w \in words : Len(w) = var.length }]

\* C13: whatever the order of the variables the worklist is built from and
\* the order the arcs are taken in, ac3 ends with the largest arc-consistent
\* sub-domains of the node-consistent domains, and it returns False only
\* when one of those is empty.
C13_Ac3OrderIndependent ==
    LET largest == MaximalArcConsistent(NodeConsistentWords)
    IN  /\ ac3_result = "True" => domains = largest
        /\ ac3_result = "False" => \E var \in variables : largest[var] = {}

(***************************************************************************)
(* The domains over a run of solve()                                       *)
(***************************************************************************)
\* C14: from the creation of the CrosswordCreator on, every step of solve()
\* leaves each domain a subset of what it was and of the word list, and the
\* steps of the search (backtrack and the functions it calls) leave the
\* domains exactly as they were.
C14_DomainsOnlyShrink ==
    [][/\ \A var \in variables' : domains'[var] \subseteq words'
       /\ pc /= "main" =>
            /\ DOMAIN domains' = DOMAIN domains
            /\ \A var \in variables : domains'[var] \subseteq domains[var]
       /\ pc \in { "backtrack", "bt_loop" } => domains' = domains]_state

\* the search is over, and before it both enforce_node_consistency and ac3
\* had removed words
C14_Witness ==
    /\ pc = "done"
    /\ result.status = "assignment"
    /\ \E var \in variables : NodeConsistentWords[var] /= words
    /\ \E var \in variables : domains[var] /= NodeConsistentWords[var]

(***************************************************************************)
(* enforce_node_consistency, twice                                         *)
(***************************************************************************)
\* C15: whatever the domains, a second call of enforce_node_consistency
\* right after a first one leaves the domains as the first call left them.
C15_NodeConsistencyIdempotent ==
    [][(pc = "test_node" /\ Len(calls) = 1 /\ Len(calls') = 2) => domains' = domains]_state

\* both calls were made on domains that held words of several lengths: some
\* variable is left with words and without some word of the list
C15_Witness ==
    /\ pc = "test_node"
    /\ Len(calls) = 2
    /\ \E var \in variables : domains[var] /= {} /\ domains[var] /= words
    /\ \E w1, w2 \in words : Len(w1) /= Len(w2)

(***************************************************************************)
(* backtrack and the bindings it leaves behind                             *)
(***************************************************************************)
\* the call of backtrack at the top of the stack has run out of values and
\* is about to return None
ReturnsNone == pc = "bt_loop" /\ stack[Len(stack)].values = << >>

\* C16: when a call of backtrack returns None, the assignment holds exactly
\* the bindings it held when that call was entered.
C16_RollbackOnFailure ==
    ReturnsNone => assignment = stack[Len(stack)].entry

(***************************************************************************)
(* The worklist of ac3                                                     *)
(***************************************************************************)
\* C17: the worklist ac3() starts from, when it is given no arcs, holds
\* every ordered pair of distinct variables: (x, y) and (y, x) for any two.
C17_InitialArcsBothWays ==
    [][pc = "ac3" =>
         Elems(arcs') = { p \in variables \X variables : p[1] /= p[2] }]_state

(***************************************************************************)
(* Termination of ac3                                                      *)
(***************************************************************************)
\* C18: every call of ac3() returns: the loop that takes arcs off the
\* worklist and puts arcs back after a revision does not run forever.
C18_Ac3Terminates == (pc = "ac3") ~> (ac3_result /= "none")

\* ac3 returned after it had put arcs back: a variable with two neighbours
\* lost words and kept some
C18_Witness ==
    /\ ac3_result /= "none"
    /\ \E x \in variables :
         /\ Cardinality(Neighbors(variables, x)) >= 2
         /\ domains[x] /= {}
         /\ domains[x] /= NodeConsistentWords[x]

(***************************************************************************)
(* ac3 and the solutions                                                   *)
(***************************************************************************)
\* C19: ac3 never removes from the domain of a variable the word that
\* variable has in a solution of the puzzle, and so when ac3 returns False
\* the puzzle has no solution.
C19_Ac3KeepsSolutions ==
    /\ \A a \in Solutions : \A var \in variables : a[var] \in domains[var]
    /\ ac3_result = "False" => Solutions = {}

\* ac3 removed words from the domains of a puzzle that has solutions
C19_Witness ==
    /\ ac3_result = "True"
    /\ Solutions /= {}
    /\ \E var \in variables : domains[var] /= NodeConsistentWords[var]

\* ac3 returned False
C19_WitnessFalse == ac3_result = "False"

(***************************************************************************)
(* The recursion of backtrack                                              *)
(***************************************************************************)
\* C20: backtrack called on the empty assignment returns; every call of
\* backtrack, the first and the recursive ones, is given an assignment that
\* is consistent; and a call is never nested in more calls of backtrack
\* than the crossword has variables.
C20_BacktrackTerminates ==
    /\ [](pc = "backtrack" => FitsSoFar(assignment))
    /\ [](Len(stack) <= Cardinality(variables))
    /\ (pc = "backtrack" /\ stack = << >>) ~> Returned

\* the deepest call: backtrack is entered with every variable of a
\* three-slot crossword bound by the calls around it
C20_Witness ==
    /\ pc = "backtrack"
    /\ Cardinality(variables) = 3
    /\ Len(stack) = Cardinality(variables)

====
